---- MODULE Spec2Model ----
(***************************************************************************)
(* node-cqrs: SagaEventHandler.handle driving an AbstractSaga.             *)
(*                                                                         *)
(* handle is a generator run by co (coWrap): it runs synchronously up to   *)
(* each yield, is suspended while the yielded promise is pending, and is   *)
(* resumed with the promise's value (or has its rejection thrown into it). *)
(* Each action below is one such synchronous segment, or one completion of *)
(* an operation of a collaborator (event store, command bus).              *)
(***************************************************************************)
EXTENDS Integers, Sequences, FiniteSets, TLC

\* ------------------------------------------------------------------ bounds
MaxHistory == 2     \* longest history getSagaEvents returns
MaxVersion == 1     \* largest event.sagaVersion delivered
MaxApplies == 3     \* most events applied to a saga object used on its own
MaxPending == 2     \* pending commands beyond which no more calls are made on it
MaxResets == 2      \* most resets counted on it
MaxCalls == 3       \* most register, registerInstance and createInstance calls made on a container from outside

\* ------------------------------------------------------------- JS values
Undefined == "undefined"          \* an absent string-valued property
NoVersion == <<>>                 \* an absent event.sagaVersion; <<v>> when present

Calls == {1, 2}                   \* invocations of handle

EventTypes == {"Create", "Step", "Quiet", "Boom", "Unknown"}
EventIds == {"E1", "E5"}
SagaIds == {"S1"}
NewIds == {"S1", "S2"}
Contexts == {"ctx"}
Results == {"r1", "r2"}

\* the value handle receives when called with no argument
NoEvent ==
    [defined |-> FALSE, id |-> Undefined, type |-> Undefined, sagaId |-> Undefined,
     sagaVersion |-> NoVersion, context |-> Undefined]

\* events the transport may deliver to handle; identifiers, types and contexts
\* are non-empty strings when present, versions are integers from 0
Events ==
    {NoEvent} \cup
    [defined : {TRUE}, id : EventIds, type : EventTypes \cup {Undefined},
     sagaId : SagaIds \cup {Undefined},
     sagaVersion : {NoVersion} \cup {<<v>> : v \in 0..MaxVersion},
     context : Contexts \cup {Undefined}]

\* a stored event of the given type, as the event store returns it
HistoryEvent(t) ==
    [defined |-> TRUE, id |-> "E0", type |-> t, sagaId |-> "S1",
     sagaVersion |-> <<0>>, context |-> Undefined]

\* the elements of a history: stored events, also one without type and an
\* absent one, which apply rejects
HistoryEvents == {HistoryEvent(t) : t \in EventTypes \cup {Undefined}} \cup {NoEvent}

\* the histories getSagaEvents may return
Histories == UNION {[1..n -> HistoryEvents] : n \in 0..MaxHistory}

\* ------------------------------------------------------------ AbstractSaga
\* A saga object; error is "" until one of its methods has thrown.
\* resets counts the calls of resetUncommittedMessages on this object.
NoSaga ==
    [id |-> Undefined, version |-> 0, messages |-> <<>>, resets |-> 0,
     error |-> "no saga"]

\* the concrete saga's handlers: the commands each handler enqueues
SagaHandlers ==
    [Create |-> <<[type |-> "Init", payload |-> "x1"]>>,
     Step   |-> <<[type |-> "A", payload |-> "p"], [type |-> "B", payload |-> "q"]>>,
     Quiet  |-> <<>>,
     Boom   |-> <<[type |-> "X", payload |-> "b"]>>]

\* the handlers that throw after their enqueue calls
ThrowingHandlers == {"Boom"}

\* utils.getHandler: is there a handler method for this event type
HasHandler(type) == type \in DOMAIN SagaHandlers

\* AbstractSaga.enqueue
Enqueue(saga, commandType, commandPayload) ==
    IF commandType = Undefined
    THEN [saga EXCEPT !.error = "commandType argument required"]
    ELSE [saga EXCEPT !.messages =
            Append(@, [sagaId |-> saga.id, sagaVersion |-> saga.version,
                       type |-> commandType, payload |-> commandPayload,
                       context |-> Undefined])]

\* the body of a handler: its enqueue calls, in order
RECURSIVE RunHandler(_, _)
RunHandler(saga, cmds) ==
    IF cmds = <<>> \/ saga.error # "" THEN saga
    ELSE RunHandler(Enqueue(saga, Head(cmds).type, Head(cmds).payload), Tail(cmds))

\* apply doing nothing but the increment when the saga has no handler
ApplyIgnoresMissingHandler(saga, event) ==
    IF saga.error # "" THEN saga
    ELSE IF ~event.defined THEN [saga EXCEPT !.error = "event argument required"]
    ELSE IF event.type = Undefined
         THEN [saga EXCEPT !.error = "event.type argument required"]
    ELSE IF ~HasHandler(event.type) THEN [saga EXCEPT !.version = @ + 1]
    ELSE LET after == RunHandler(saga, SagaHandlers[event.type])
         IN IF after.error # "" THEN after
            ELSE IF event.type \in ThrowingHandlers
                 THEN [after EXCEPT !.error = "handler threw"]
            ELSE [after EXCEPT !.version = @ + 1]

\* apply incrementing the version only when the handler has enqueued
ApplyIncrementsOnEnqueue(saga, event) ==
    IF saga.error # "" THEN saga
    ELSE IF ~event.defined THEN [saga EXCEPT !.error = "event argument required"]
    ELSE IF event.type = Undefined
         THEN [saga EXCEPT !.error = "event.type argument required"]
    ELSE IF ~HasHandler(event.type)
         THEN [saga EXCEPT !.error = "handler is not defined"]
    ELSE LET after == RunHandler(saga, SagaHandlers[event.type])
         IN IF after.error # "" THEN after
            ELSE IF event.type \in ThrowingHandlers
                 THEN [after EXCEPT !.error = "handler threw"]
            ELSE IF after.messages = saga.messages THEN after
            ELSE [after EXCEPT !.version = @ + 1]

\* apply incrementing the version before it invokes the handler
ApplyIncrementFirst(saga, event) ==
    IF saga.error # "" THEN saga
    ELSE IF ~event.defined THEN [saga EXCEPT !.error = "event argument required"]
    ELSE IF event.type = Undefined
         THEN [saga EXCEPT !.error = "event.type argument required"]
    ELSE IF ~HasHandler(event.type)
         THEN [saga EXCEPT !.error = "handler is not defined"]
    ELSE LET after == RunHandler([saga EXCEPT !.version = @ + 1],
                                 SagaHandlers[event.type])
         IN IF after.error = "" /\ event.type \in ThrowingHandlers
            THEN [after EXCEPT !.error = "handler threw"]
            ELSE after

\* AbstractSaga.apply
Apply(saga, event) ==
    IF saga.error # "" THEN saga
    ELSE IF ~event.defined THEN [saga EXCEPT !.error = "event argument required"]
    ELSE IF event.type = Undefined
         THEN [saga EXCEPT !.error = "event.type argument required"]
    ELSE IF ~HasHandler(event.type)
         THEN [saga EXCEPT !.error = "handler is not defined"]
    ELSE LET after == RunHandler(saga, SagaHandlers[event.type])
         IN IF after.error # "" THEN after
            ELSE IF event.type \in ThrowingHandlers
                 THEN [after EXCEPT !.error = "handler threw"]
            ELSE [after EXCEPT !.version = @ + 1]

\* resetUncommittedMessages leaving the list as it is
ResetKeepsMessages(saga) ==
    IF saga.error # "" THEN saga
    ELSE [saga EXCEPT !.resets = @ + 1]

\* AbstractSaga.resetUncommittedMessages
ResetUncommittedMessages(saga) ==
    IF saga.error # "" THEN saga
    ELSE [saga EXCEPT !.messages = <<>>, !.resets = @ + 1]

\* options.events.forEach(e => this.apply(e))
RECURSIVE Replay(_, _)
Replay(saga, events) ==
    IF events = <<>> THEN saga
    ELSE Replay(Apply(saga, Head(events)), Tail(events))

\* the constructor without the reset that follows the replay
NewSagaNoReset(id, hasEvents, events) ==
    IF id = Undefined
    THEN [NoSaga EXCEPT !.error = "options.id argument required"]
    ELSE Replay([id |-> id, version |-> 0, messages |-> <<>>, resets |-> 0,
                 error |-> ""], events)

\* new AbstractSaga(options); hasEvents tells whether options.events is given.
\* validateHandlers(this) passes: the saga has a handler for each type it handles.
NewSaga(id, hasEvents, events) ==
    IF id = Undefined
    THEN [NoSaga EXCEPT !.error = "options.id argument required"]
    ELSE LET fresh == [id |-> id, version |-> 0, messages |-> <<>>, resets |-> 0,
                       error |-> ""]
         IN IF hasEvents
            THEN ResetUncommittedMessages(Replay(fresh, events))
            ELSE fresh

\* AbstractSaga.uncommittedMessages: a slice() of the list, holding the same
\* command objects
UncommittedMessages(saga) == saga.messages

\* -------------------------------------------------------- SagaEventHandler
VARIABLES
    pc,          \* pc[h]: where call h of handle is
    event,       \* event[h]: the argument of call h
    storeCalls,  \* storeCalls[h]: the event store operations call h has invoked
    storeReply,  \* storeReply[h]: how the promise of that operation has settled
    restored,    \* restored[h]: the saga as the factory returned it to call h
    saga,        \* saga[h]: the saga of call h
    sent,        \* sent[h]: the commands call h has passed to sendRaw, as passed
    inflight,    \* inflight[h]: indices of sent[h] whose promise is pending
    settled,     \* settled[h]: the settled sendRaw promises, in order of settling
    outcome,     \* outcome[h]: how the promise handle returned has settled
    options,     \* the argument of new SagaEventHandler(options)
    reactor,     \* the SagaEventHandler constructed from it
    obj,         \* a saga object used on its own
    born,        \* the id obj was constructed with
    applies,     \* the number of apply calls on obj that returned
    container    \* a Container: its factories, getters, instances, and its history

\* the state of the calls of handle
handleVars ==
    <<pc, event, storeCalls, storeReply, restored, saga, sent, inflight, settled,
      outcome>>

\* the state of the construction of a SagaEventHandler
reactorVars == <<options, reactor>>

\* the state of a saga object used on its own
sagaVars == <<obj, born, applies>>

\* the state of a Container
containerVars == <<container>>

vars == <<handleVars, reactorVars, sagaVars, containerVars>>

\* what the steps of each component leave alone
notHandle == <<reactorVars, sagaVars, containerVars>>
notReactor == <<handleVars, sagaVars, containerVars>>
notSaga == <<handleVars, reactorVars, containerVars>>
notContainer == <<handleVars, reactorVars, sagaVars>>

Pending == [status |-> "pending", value |-> <<>>, error |-> ""]
Rejected(msg) == [status |-> "rejected", value |-> <<>>, error |-> msg]
Resolved(v) == [status |-> "resolved", value |-> v, error |-> ""]

NoReply == [status |-> "pending", id |-> Undefined, events |-> <<>>]

\* ---- Container
\* the types and factories registered; a component is exposed under its own name
Components == {"store", "handler", "plugin"}

\* the names of the properties of a container: those of the components and
\* "container", under which the constructor registers the container itself
Names == Components \cup {"container"}

\* the names each one reads from the container when it is instantiated
Dependencies ==
    [store |-> <<>>, handler |-> <<"store">>, plugin |-> <<"container">>]

\* the register calls each one makes on the container when it is instantiated;
\* they are unexposed, so none of them defines a property
Registers ==
    [store |-> <<>>, handler |-> <<>>,
     plugin |-> <<[comp |-> "handler", exposeAs |-> Undefined]>>]

\* no instance: an absent property of container.instances
NoInstance == [comp |-> Undefined, serial |-> 0]

\* the container itself, as the value of container.container
TheContainer == [comp |-> "container", serial |-> 0]

\* the object handed to registerInstance by the k-th call from outside
GivenInstance(k) == [comp |-> "given", serial |-> k]

\* no own property of that name on the container
NoGetter == [kind |-> "none", comp |-> Undefined, configurable |-> FALSE]

\* Object.defineProperty(this, name, ...) is accepted: there is no such
\* property yet or the one there is configurable
Redefinable(w, name) == w.getters[name].kind = "none" \/ w.getters[name].configurable

\* Container.registerInstance(instance, exposeAs): the instance is stored
\* first, then the property is defined; a property defined here from scratch
\* is not configurable, one redefined keeps the configurable it had
RegisterInstance(w, instance, exposeAs) ==
    LET stored == [w EXCEPT !.instances[exposeAs] = instance,
                            !.given = @ \cup {exposeAs}]
    IN IF ~Redefinable(stored, exposeAs)
       THEN [stored EXCEPT !.error = "TypeError"]
       ELSE [stored EXCEPT !.getters[exposeAs] =
                [kind |-> "given", comp |-> Undefined,
                 configurable |-> stored.getters[exposeAs].kind # "none"]]

\* new Container(), with the record of what has happened on it:
\* log, the instantiations; invoked, the factories of the list that were
\* called; registered, the register calls that went through; calls,
\* the number of register, registerInstance and createInstance calls from
\* outside; given, the names registerInstance was called with; returned, the
\* values the getters gave; error, what the last call threw
EmptyContainer ==
    RegisterInstance(
        [factories |-> <<>>,
         getters |-> [n \in Names |-> NoGetter],
         instances |-> [n \in Names |-> NoInstance],
         log |-> <<>>, invoked |-> <<>>, registered |-> <<>>,
         calls |-> 0, given |-> {},
         returned |-> [n \in Names |-> {}], error |-> ""],
        TheContainer, "container")

\* the number of instantiations of a component so far
Instantiations(w, comp) == Cardinality({k \in 1..Len(w.log) : w.log[k].comp = comp})

\* Container.register(typeOrFactory, exposeAs): defineProperty throws on a
\* property that is not configurable, before anything is pushed
Register(w, comp, exposeAs) ==
    LET entry == [unexposed |-> exposeAs = Undefined, name |-> exposeAs, comp |-> comp]
    IN IF exposeAs # Undefined /\ ~Redefinable(w, exposeAs)
       THEN [w EXCEPT !.error = "TypeError"]
       ELSE [w EXCEPT !.getters = IF exposeAs # Undefined
                                  THEN [@ EXCEPT ![exposeAs] =
                                           [kind |-> "lazy", comp |-> comp,
                                            configurable |-> TRUE]]
                                  ELSE @,
                      !.factories = Append(@, entry),
                      !.registered = Append(@, entry)]

\* the register calls of a component being instantiated
RECURSIVE RegisterAll(_, _)
RegisterAll(w, calls) ==
    IF calls = <<>> THEN w
    ELSE RegisterAll(Register(w, Head(calls).comp, Head(calls).exposeAs), Tail(calls))

RECURSIVE Get(_, _)
RECURSIVE ResolveAll(_, _)
RECURSIVE CreateInstance(_, _, _)

\* createInstance(typeOrFactory, container): the dependencies are read from
\* the container, then the type is instantiated; via is the name of the
\* getter that asked for the instance, if any
CreateInstance(w, comp, via) ==
    LET resolved == ResolveAll(w, Dependencies[comp])
        instance == [comp |-> comp, serial |-> Instantiations(resolved, comp) + 1]
        made == [resolved EXCEPT !.log = Append(@, [comp |-> comp, via |-> via])]
    IN [w |-> RegisterAll(made, Registers[comp]), value |-> instance]

\* dependencies.map(dependency => container[dependency])
ResolveAll(w, names) ==
    IF names = <<>> THEN w
    ELSE ResolveAll(Get(w, Head(names)).w, Tail(names))

\* a getter that does not keep the instance it creates
GetUncached(w, name) ==
    IF w.getters[name].kind = "none" THEN [w |-> w, value |-> NoInstance]
    ELSE LET got == IF w.getters[name].kind = "given"
                    THEN [w |-> w, value |-> w.instances[name]]
                    ELSE CreateInstance(w, w.getters[name].comp, name)
         IN [w |-> [got.w EXCEPT !.returned[name] = @ \cup {got.value}],
             value |-> got.value]

\* container[name]: undefined without a property of that name; the getter of
\* registerInstance gives instances[name], the getter of register gives
\* instances[name] or creates and keeps it
Get(w, name) ==
    IF w.getters[name].kind = "none" THEN [w |-> w, value |-> NoInstance]
    ELSE LET got == IF w.getters[name].kind = "given" \/ w.instances[name] # NoInstance
                    THEN [w |-> w, value |-> w.instances[name]]
                    ELSE LET created == CreateInstance(w, w.getters[name].comp, name)
                         IN [w |-> [created.w EXCEPT !.instances[name] = created.value],
                             value |-> created.value]
         IN [w |-> [got.w EXCEPT !.returned[name] = @ \cup {got.value}],
             value |-> got.value]

\* a factory of the list called with the container
InvokeFactory(w, entry) ==
    LET called == [w EXCEPT !.invoked = Append(@, entry)]
    IN IF entry.unexposed
       THEN CreateInstance(called, entry.comp, Undefined).w
       ELSE Get(called, entry.name).w

\* the loop of createUnexposedInstances without the i -= 1 after a splice
RECURSIVE UnexposedLoopSkipping(_, _)
UnexposedLoopSkipping(w, i) ==
    IF i >= Len(w.factories) THEN w
    ELSE IF w.factories[i + 1].unexposed
    THEN LET entry == w.factories[i + 1]
             spliced == [w EXCEPT !.factories =
                            SubSeq(@, 1, i) \o SubSeq(@, i + 2, Len(@))]
         IN UnexposedLoopSkipping(InvokeFactory(spliced, entry), i + 1)
    ELSE UnexposedLoopSkipping(w, i + 1)

\* Container.createUnexposedInstances: the loop, from index i
RECURSIVE UnexposedLoop(_, _)
UnexposedLoop(w, i) ==
    IF i >= Len(w.factories) THEN w
    ELSE IF w.factories[i + 1].unexposed
    THEN LET entry == w.factories[i + 1]
             spliced == [w EXCEPT !.factories =
                            SubSeq(@, 1, i) \o SubSeq(@, i + 2, Len(@))]
         IN UnexposedLoop(InvokeFactory(spliced, entry), (i - 1) + 1)
    ELSE UnexposedLoop(w, i + 1)

\* Container.createAllInstances: the loop
RECURSIVE AllLoop(_)
AllLoop(w) ==
    IF w.factories = <<>> THEN w
    ELSE AllLoop(InvokeFactory([w EXCEPT !.factories = Tail(@)], Head(w.factories)))

\* ---- new SagaEventHandler(options)
\* an absent options.handles or sagaType.handles
NoHandles == [defined |-> FALSE, types |-> <<>>]

\* the lists of event types a handles property may hold
HandlesLists ==
    {[defined |-> TRUE, types |-> ts] : ts \in {<<"Create">>, <<"Create", "Step">>}}

\* options.sagaType: absent, a class or a plain function; its handles property
\* is declared, absent, or the getter of AbstractSaga, which throws
NoSagaType == [shape |-> "undefined", handles |-> "undefined"]
SagaTypes ==
    {NoSagaType} \cup
    [shape : {"class"}, handles : {"declared", "throws", "undefined"}] \cup
    [shape : {"function"}, handles : {"declared", "undefined"}]

\* the value handle receives when constructed with no argument
NoOptions ==
    [defined |-> FALSE, sagaType |-> NoSagaType, eventStore |-> FALSE,
     commandBus |-> FALSE, handles |-> NoHandles, queueName |-> Undefined]

\* the arguments of the constructor
OptionsValues ==
    {NoOptions} \cup
    [defined : {TRUE}, sagaType : SagaTypes, eventStore : BOOLEAN,
     commandBus : BOOLEAN, handles : {NoHandles} \cup HandlesLists,
     queueName : {Undefined, "q"}]

\* no SagaEventHandler yet; error is "" for a constructed one
NoReactor ==
    [constructed |-> FALSE, error |-> "", createSaga |-> "undefined",
     handles |-> NoHandles, queueName |-> Undefined]

\* the handles a saga type declares itself
DeclaredHandles == [defined |-> TRUE, types |-> <<"Create", "Step", "Quiet", "Boom">>]

\* SagaEventHandler.constructor
NewSagaEventHandler(o) ==
    LET failed(msg) == [NoReactor EXCEPT !.error = msg]
    IN IF ~o.defined THEN failed("options argument required")
       ELSE IF o.sagaType.shape = "undefined"
            THEN failed("options.sagaType argument required")
       ELSE IF ~o.eventStore THEN failed("options.eventStore argument required")
       ELSE IF ~o.commandBus THEN failed("options.commandBus argument required")
       ELSE IF ~o.handles.defined /\ o.sagaType.handles = "throws"
            THEN failed("handles must be overridden")
       ELSE [constructed |-> TRUE, error |-> "",
             createSaga |-> IF o.sagaType.shape = "class" THEN "new" ELSE "call",
             handles |-> IF o.handles.defined THEN o.handles
                         ELSE IF o.sagaType.handles = "declared" THEN DeclaredHandles
                         ELSE NoHandles,
             queueName |-> o.queueName]

Init ==
    /\ pc = [h \in Calls |-> "idle"]
    /\ event = [h \in Calls |-> NoEvent]
    /\ storeCalls = [h \in Calls |-> <<>>]
    /\ storeReply = [h \in Calls |-> NoReply]
    /\ restored = [h \in Calls |-> NoSaga]
    /\ saga = [h \in Calls |-> NoSaga]
    /\ sent = [h \in Calls |-> <<>>]
    /\ inflight = [h \in Calls |-> {}]
    /\ settled = [h \in Calls |-> <<>>]
    /\ outcome = [h \in Calls |-> Pending]
    /\ options = NoOptions
    /\ reactor = NoReactor
    /\ obj = NoSaga
    /\ born = Undefined
    /\ applies = 0
    /\ container = EmptyContainer

\* a generator that throws: co rejects the promise handle returned
Throw(h, msg) ==
    /\ pc' = [pc EXCEPT ![h] = "failed"]
    /\ outcome' = [outcome EXCEPT ![h] = Rejected(msg)]

\* getSagaEvents called without the except option
GetSagaEventsCallNoExcept(e) ==
    [op |-> "getSagaEvents", sagaId |-> e.sagaId, before |-> e.sagaVersion,
     except |-> Undefined]

\* this[_eventStore].getSagaEvents(event.sagaId, {before, except})
GetSagaEventsCall(e) ==
    [op |-> "getSagaEvents", sagaId |-> e.sagaId, before |-> e.sagaVersion,
     except |-> e.id]

\* this[_eventStore].getNewId()
GetNewIdCall ==
    [op |-> "getNewId", sagaId |-> Undefined, before |-> NoVersion,
     except |-> Undefined]

\* Handle without the check of event.sagaVersion
HandleUncheckedVersion(h, e) ==
    /\ UNCHANGED notHandle
    /\ pc[h] = "idle"
    /\ event' = [event EXCEPT ![h] = e]
    /\ UNCHANGED <<storeReply, restored, saga, sent, inflight, settled>>
    /\ IF ~e.defined \/ e.type = Undefined
       THEN Throw(h, "argument required") /\ UNCHANGED storeCalls
       ELSE /\ storeCalls' = [storeCalls EXCEPT ![h] =
                   Append(@, IF e.sagaId # Undefined THEN GetSagaEventsCall(e)
                             ELSE GetNewIdCall)]
            /\ pc' = [pc EXCEPT ![h] =
                   IF e.sagaId # Undefined THEN "awaitEvents" ELSE "awaitId"]
            /\ UNCHANGED outcome

\* handle, from its call to its first yield
Handle(h, e) ==
    /\ UNCHANGED notHandle
    /\ pc[h] = "idle"
    /\ event' = [event EXCEPT ![h] = e]
    /\ UNCHANGED <<storeReply, restored, saga, sent, inflight, settled>>
    /\ IF ~e.defined
       THEN Throw(h, "event argument required") /\ UNCHANGED storeCalls
       ELSE IF e.type = Undefined
       THEN Throw(h, "event.type argument required") /\ UNCHANGED storeCalls
       ELSE IF e.sagaId # Undefined
       THEN IF e.sagaVersion = NoVersion
            THEN Throw(h, "event.sagaVersion argument required") /\ UNCHANGED storeCalls
            ELSE /\ storeCalls' = [storeCalls EXCEPT ![h] = Append(@, GetSagaEventsCall(e))]
                 /\ pc' = [pc EXCEPT ![h] = "awaitEvents"]
                 /\ UNCHANGED outcome
       ELSE /\ storeCalls' = [storeCalls EXCEPT ![h] = Append(@, GetNewIdCall)]
            /\ pc' = [pc EXCEPT ![h] = "awaitId"]
            /\ UNCHANGED outcome

\* the event store settles the promise of the operation call h is waiting for
StoreSettles(h, reply) ==
    /\ UNCHANGED notHandle
    /\ pc[h] \in {"awaitEvents", "awaitId"}
    /\ storeReply[h].status = "pending"
    /\ storeReply' = [storeReply EXCEPT ![h] = reply]
    /\ UNCHANGED <<pc, event, storeCalls, restored, saga, sent, inflight, settled,
                   outcome>>

\* sendRaw called before the context is set
SendUnstamped(commands, e) == commands

\* a loop that waits for each dispatch before it issues the next
SendFirstOnly(commands, e) ==
    [i \in 1..(IF commands = <<>> THEN 0 ELSE 1) |->
        [commands[i] EXCEPT !.context = e.context]]

\* commands.map(command => { command.context = event.context;
\*                           return sendRaw(command); }):
\* the commands as sendRaw receives them
StampAndSend(commands, e) ==
    [i \in 1..Len(commands) |-> [commands[i] EXCEPT !.context = e.context]]

\* handle, from the saga the factory returned to the yield of the dispatches
ApplyAndDispatch(h, created) ==
    IF created.error # ""
    THEN /\ Throw(h, created.error)
         /\ UNCHANGED <<restored, saga, sent, inflight>>
    ELSE LET applied == Apply(created, event[h])
             commands == UncommittedMessages(applied)
             passed == StampAndSend(commands, event[h])
         IN /\ restored' = [restored EXCEPT ![h] = created]
            /\ IF applied.error # ""
               THEN /\ Throw(h, applied.error)
                    /\ saga' = [saga EXCEPT ![h] = applied]
                    /\ UNCHANGED <<sent, inflight>>
               ELSE \* the commands are the saga's own objects: stamping a
                    \* command stamps the one in the saga's list
                    /\ saga' = [saga EXCEPT ![h] =
                          [applied EXCEPT !.messages =
                              [i \in 1..Len(commands) |->
                                  [commands[i] EXCEPT !.context = event[h].context]]]]
                    /\ sent' = [sent EXCEPT ![h] = passed]
                    /\ inflight' = [inflight EXCEPT ![h] = 1..Len(passed)]
                    /\ pc' = [pc EXCEPT ![h] = "awaitDispatch"]
                    /\ UNCHANGED outcome

\* handle going on without waiting for getSagaEvents
ResumeWithoutEvents(h) ==
    /\ UNCHANGED notHandle
    /\ pc[h] = "awaitEvents"
    /\ ApplyAndDispatch(h, NewSaga(event[h].sagaId, TRUE, storeReply[h].events))
    /\ UNCHANGED <<event, storeCalls, storeReply, settled>>

\* handle resuming only when no other call dispatches for the same saga
ResumeWithEventsSerialized(h) ==
    /\ UNCHANGED notHandle
    /\ pc[h] = "awaitEvents"
    /\ storeReply[h].status = "resolved"
    /\ \A g \in Calls \ {h} :
          ~(pc[g] = "awaitDispatch" /\ saga[g].id = event[h].sagaId)
    /\ ApplyAndDispatch(h, NewSaga(event[h].sagaId, TRUE, storeReply[h].events))
    /\ UNCHANGED <<event, storeCalls, storeReply, settled>>

\* handle taking the saga another call has built for the same id
ResumeWithCachedSaga(h) ==
    /\ UNCHANGED notHandle
    /\ pc[h] = "awaitEvents"
    /\ storeReply[h].status = "resolved"
    /\ LET cached == {g \in Calls \ {h} :
                         saga[g].error = "" /\ saga[g].id = event[h].sagaId}
       IN ApplyAndDispatch(h,
              IF cached = {}
              THEN NewSaga(event[h].sagaId, TRUE, storeReply[h].events)
              ELSE saga[CHOOSE g \in cached : TRUE])
    /\ UNCHANGED <<event, storeCalls, storeReply, settled>>

\* getSagaEvents has resolved: handle resumes with the history (continuing saga)
ResumeWithEvents(h) ==
    /\ UNCHANGED notHandle
    /\ pc[h] = "awaitEvents"
    /\ storeReply[h].status = "resolved"
    /\ ApplyAndDispatch(h, NewSaga(event[h].sagaId, TRUE, storeReply[h].events))
    /\ UNCHANGED <<event, storeCalls, storeReply, settled>>

\* the new saga built with the id of the event
ResumeWithEventId(h) ==
    /\ UNCHANGED notHandle
    /\ pc[h] = "awaitId"
    /\ storeReply[h].status = "resolved"
    /\ ApplyAndDispatch(h, NewSaga(event[h].id, FALSE, <<>>))
    /\ UNCHANGED <<event, storeCalls, storeReply, settled>>

\* getNewId has resolved: handle resumes with the identifier (new saga)
ResumeWithId(h) ==
    /\ UNCHANGED notHandle
    /\ pc[h] = "awaitId"
    /\ storeReply[h].status = "resolved"
    /\ ApplyAndDispatch(h, NewSaga(storeReply[h].id, FALSE, <<>>))
    /\ UNCHANGED <<event, storeCalls, storeReply, settled>>

\* the rejection of the store operation swallowed: handle goes on with no history
ResumeIgnoringError(h) ==
    /\ UNCHANGED notHandle
    /\ pc[h] \in {"awaitEvents", "awaitId"}
    /\ storeReply[h].status = "rejected"
    /\ ApplyAndDispatch(h, NewSaga(event[h].id, TRUE, <<>>))
    /\ UNCHANGED <<event, storeCalls, storeReply, settled>>

\* the event store operation has rejected: co throws the error into handle
ResumeWithError(h) ==
    /\ UNCHANGED notHandle
    /\ pc[h] \in {"awaitEvents", "awaitId"}
    /\ storeReply[h].status = "rejected"
    /\ Throw(h, "store error")
    /\ UNCHANGED <<event, storeCalls, storeReply, restored, saga, sent, inflight,
                   settled>>

\* the promise of the i-th sendRaw settles
SendRawSettles(h, i, ok, value) ==
    /\ UNCHANGED notHandle
    /\ i \in inflight[h]
    /\ inflight' = [inflight EXCEPT ![h] = @ \ {i}]
    /\ settled' = [settled EXCEPT ![h] =
            Append(@, [index |-> i, ok |-> ok, value |-> value])]
    /\ UNCHANGED <<pc, event, storeCalls, storeReply, restored, saga, sent, outcome>>

\* results collected in the order the promises settle
ValuesInSettlingOrder(n, done) == [k \in 1..n |-> done[k].value]

\* co's Promise.all over the yielded array of n promises: the value it
\* resolves with, given the settled promises in order of settling
PromiseAllValue(n, done) ==
    [i \in 1..n |->
        LET k == CHOOSE j \in 1..Len(done) : done[j].index = i
        IN done[k].value]

\* the first of the yielded promises to reject, if any
FirstRejected(done) ==
    LET bad == {j \in 1..Len(done) : ~done[j].ok}
    IN IF bad = {} THEN 0 ELSE CHOOSE j \in bad : \A k \in bad : j <= k

\* handle resuming with the first dispatch that settles, whatever the others do
DispatchSettlesEarly(h) ==
    /\ UNCHANGED notHandle
    /\ pc[h] = "awaitDispatch"
    /\ \/ /\ FirstRejected(settled[h]) # 0
          /\ Throw(h, settled[h][FirstRejected(settled[h])].value)
       \/ /\ FirstRejected(settled[h]) = 0
          /\ inflight[h] = {} \/ settled[h] # <<>>
          /\ pc' = [pc EXCEPT ![h] = "done"]
          /\ outcome' = [outcome EXCEPT ![h] =
                Resolved(ValuesInSettlingOrder(Len(settled[h]), settled[h]))]
    /\ UNCHANGED <<event, storeCalls, storeReply, restored, saga, sent, inflight,
                   settled>>

\* the yielded Promise.all settles: handle resumes and returns, or has the
\* rejection thrown into it
DispatchSettles(h) ==
    /\ UNCHANGED notHandle
    /\ pc[h] = "awaitDispatch"
    /\ \/ /\ FirstRejected(settled[h]) # 0
          /\ Throw(h, settled[h][FirstRejected(settled[h])].value)
       \/ /\ FirstRejected(settled[h]) = 0
          /\ inflight[h] = {}
          /\ pc' = [pc EXCEPT ![h] = "done"]
          /\ outcome' = [outcome EXCEPT ![h] =
                Resolved(PromiseAllValue(Len(sent[h]), settled[h]))]
    /\ UNCHANGED <<event, storeCalls, storeReply, restored, saga, sent, inflight,
                   settled>>

\* the replies of the event store
EventsReplies == {[status |-> "resolved", id |-> Undefined, events |-> es] : es \in Histories}
IdReplies == {[status |-> "resolved", id |-> id, events |-> <<>>] : id \in NewIds}
ErrorReply == [status |-> "rejected", id |-> Undefined, events |-> <<>>]

\* every step call h can take
Step(h) ==
    \/ \E e \in Events : Handle(h, e)
    \/ /\ pc[h] = "awaitEvents"
       /\ \E reply \in EventsReplies : StoreSettles(h, reply)
    \/ /\ pc[h] = "awaitId"
       /\ \E reply \in IdReplies : StoreSettles(h, reply)
    \/ StoreSettles(h, ErrorReply)
    \/ ResumeWithEvents(h)
    \/ ResumeWithId(h)
    \/ ResumeWithError(h)
    \/ \E i \in 1..Len(sent[h]) :
          \/ \E r \in Results : SendRawSettles(h, i, TRUE, r)
          \/ SendRawSettles(h, i, FALSE, "send error")
    \/ DispatchSettles(h)

\* one call of handle
Next == Step(1)

Spec == Init /\ [][Next]_vars

\* new SagaEventHandler(o)
Construct(o) ==
    /\ ~reactor.constructed
    /\ reactor.error = ""
    /\ options' = o
    /\ reactor' = NewSagaEventHandler(o)
    /\ UNCHANGED notReactor

\* the construction of one SagaEventHandler
NextReactor == \E o \in OptionsValues : Construct(o)

SpecReactor == Init /\ [][NextReactor]_vars

\* ---- a saga object used on its own
\* the events applied to it, and the histories it is constructed from
SagaEvents ==
    {HistoryEvent(t) : t \in {"Create", "Quiet", "Boom", "Unknown", Undefined}}
        \cup {NoEvent}
SagaHistories ==
    {<<>>, <<HistoryEvent("Create")>>, <<HistoryEvent("Create"), HistoryEvent("Quiet")>>,
     <<HistoryEvent("Quiet"), HistoryEvent("Boom")>>}

\* new AbstractSaga({id, events}); a constructor that throws gives no object
SagaConstruct(id, hasEvents, events) ==
    /\ obj = NoSaga
    /\ LET made == NewSaga(id, hasEvents, events)
       IN IF made.error = ""
          THEN obj' = made /\ born' = id /\ applies' = Len(events)
          ELSE UNCHANGED sagaVars
    /\ UNCHANGED notSaga

\* saga.apply(e); an apply that throws leaves the object as it was when it threw
SagaApply(e) ==
    /\ obj.error = ""
    /\ obj.version < MaxApplies
    /\ Len(obj.messages) <= MaxPending
    /\ LET after == Apply(obj, e)
       IN IF after.error = ""
          THEN obj' = after /\ applies' = applies + 1
          ELSE obj' = [after EXCEPT !.error = ""] /\ applies' = applies
    /\ UNCHANGED <<born, notSaga>>

\* saga.enqueue(commandType, commandPayload), called from outside a handler
SagaEnqueue(commandType, commandPayload) ==
    /\ obj.error = ""
    /\ Len(obj.messages) <= MaxPending
    /\ obj' = [Enqueue(obj, commandType, commandPayload) EXCEPT !.error = ""]
    /\ UNCHANGED <<born, applies, notSaga>>

\* saga.resetUncommittedMessages()
SagaReset ==
    /\ obj.error = ""
    /\ obj.resets < MaxResets
    /\ obj' = ResetUncommittedMessages(obj)
    /\ UNCHANGED <<born, applies, notSaga>>

\* the calls made on one saga object
NextSaga ==
    \/ \E id \in NewIds \cup {Undefined} : \E es \in SagaHistories :
          \/ SagaConstruct(id, TRUE, es)
          \/ es = <<>> /\ SagaConstruct(id, FALSE, es)
    \/ \E e \in SagaEvents : SagaApply(e)
    \/ \E t \in {"Init", Undefined} : SagaEnqueue(t, "x1")
    \/ SagaReset

SpecSaga == Init /\ [][NextSaga]_vars

\* ---- the calls made on a Container
\* container.register(comp, exposeAs)
ContainerRegister(comp, exposeAs) ==
    /\ container.calls < MaxCalls
    /\ container' = Register([container EXCEPT !.calls = @ + 1, !.error = ""],
                             comp, exposeAs)
    /\ UNCHANGED notContainer

\* container.registerInstance(instance, exposeAs), with an object of its own
ContainerRegisterInstance(exposeAs) ==
    /\ container.calls < MaxCalls
    /\ container' = RegisterInstance([container EXCEPT !.calls = @ + 1, !.error = ""],
                                     GivenInstance(container.calls + 1), exposeAs)
    /\ UNCHANGED notContainer

\* a read of container[name]
ContainerGet(name) ==
    /\ container' = Get([container EXCEPT !.error = ""], name).w
    /\ UNCHANGED notContainer

\* container.createInstance(comp)
ContainerCreateInstance(comp) ==
    /\ container.calls < MaxCalls
    /\ container' = CreateInstance([container EXCEPT !.calls = @ + 1, !.error = ""],
                                   comp, Undefined).w
    /\ UNCHANGED notContainer

\* container.createUnexposedInstances()
ContainerCreateUnexposedInstances ==
    /\ container' = UnexposedLoop([container EXCEPT !.error = ""], 0)
    /\ UNCHANGED notContainer

\* container.createAllInstances()
ContainerCreateAllInstances ==
    /\ container' = AllLoop([container EXCEPT !.error = ""])
    /\ UNCHANGED notContainer

NextContainer ==
    \/ \E comp \in Components : \E exposeAs \in {comp, Undefined} :
          ContainerRegister(comp, exposeAs)
    \/ \E exposeAs \in Names : ContainerRegisterInstance(exposeAs)
    \/ \E name \in Names : ContainerGet(name)
    \/ \E comp \in Components : ContainerCreateInstance(comp)
    \/ ContainerCreateUnexposedInstances
    \/ ContainerCreateAllInstances

SpecContainer == Init /\ [][NextContainer]_vars

\* ---- concurrent calls of handle
\* the events of the concurrent calls: valid, of two types, for one saga or new
ConcEvents ==
    {e \in Events :
        /\ e.defined
        /\ e.type \in {"Create", "Step"}
        /\ e.context = "ctx"
        /\ e.sagaVersion = (IF e.sagaId = Undefined THEN NoVersion ELSE <<1>>)}

\* the histories the event store returns to them
ConcEventsReplies ==
    {[status |-> "resolved", id |-> Undefined, events |-> es] :
        es \in {<<>>, <<HistoryEvent("Create")>>}}

\* every step call h can take among concurrent calls
StepConc(h) ==
    \/ \E e \in ConcEvents : Handle(h, e)
    \/ /\ pc[h] = "awaitEvents"
       /\ \E reply \in ConcEventsReplies : StoreSettles(h, reply)
    \/ /\ pc[h] = "awaitId"
       /\ \E reply \in IdReplies : StoreSettles(h, reply)
    \/ StoreSettles(h, ErrorReply)
    \/ ResumeWithEvents(h)
    \/ ResumeWithId(h)
    \/ ResumeWithError(h)
    \/ \E i \in 1..Len(sent[h]) :
          \/ SendRawSettles(h, i, TRUE, "r1")
          \/ SendRawSettles(h, i, FALSE, "send error")
    \/ DispatchSettles(h)

\* the calls of handle, interleaved at their yields
NextConc == \E h \in Calls : StepConc(h)

SpecConc == Init /\ [][NextConc]_vars

\* ------------------------------------------------------------ properties
\* the event fails the checks handle makes of its argument
Invalid(e) ==
    \/ ~e.defined
    \/ e.type = Undefined
    \/ e.sagaId # Undefined /\ e.sagaVersion = NoVersion

\* call h was made with a valid event that starts a new saga
NewPath(h) ==
    pc[h] # "idle" /\ ~Invalid(event[h]) /\ event[h].sagaId = Undefined

\* call h was made with a valid event that continues a saga
ContinuingPath(h) ==
    pc[h] # "idle" /\ ~Invalid(event[h]) /\ event[h].sagaId # Undefined

\* C1: a call of handle with no event, an event without type, or an event
\* with sagaId and without sagaVersion is rejected and has invoked neither
\* getSagaEvents, getNewId nor sendRaw.
C1_FailFast ==
    \A h \in Calls :
        (pc[h] # "idle" /\ Invalid(event[h])) =>
            /\ pc[h] = "failed"
            /\ outcome[h].status = "rejected"
            /\ storeCalls[h] = <<>>
            /\ sent[h] = <<>>

C1_Witness ==
    /\ pc[1] = "failed"
    /\ event[1].type = "Step"
    /\ event[1].sagaId = "S1"
    /\ event[1].sagaVersion = NoVersion

\* C2: a call with a valid event without sagaId invokes getNewId exactly
\* once and getSagaEvents never; the saga it builds has the id getNewId
\* returned and is built without replay (version 0, nothing enqueued).
C2_NewSagaPath ==
    \A h \in Calls :
        NewPath(h) =>
            /\ storeCalls[h] = <<GetNewIdCall>>
            /\ restored[h].error = "" =>
                  /\ restored[h].id = storeReply[h].id
                  /\ restored[h].version = 0
                  /\ restored[h].messages = <<>>
            /\ saga[h].error = "" => saga[h].id = storeReply[h].id

C2_Witness ==
    /\ pc[1] = "done"
    /\ event[1].sagaId = Undefined
    /\ storeReply[1].id = "S2"
    /\ saga[1].id = "S2"

\* C3: a call with sagaId S, sagaVersion V and id E invokes
\* getSagaEvents(S, {before: V, except: E}) and never getNewId; with a
\* returned history of length L the saga has version L after restoration,
\* L+1 after the live event, and the commands of the live event carry L.
C3_ContinuingPath ==
    \A h \in Calls :
        ContinuingPath(h) =>
            LET L == Len(storeReply[h].events)
            IN /\ storeCalls[h] =
                    <<[op |-> "getSagaEvents", sagaId |-> event[h].sagaId,
                       before |-> event[h].sagaVersion, except |-> event[h].id]>>
               /\ restored[h].error = "" => restored[h].version = L
               /\ saga[h].error = "" =>
                     /\ saga[h].version = L + 1
                     /\ \A i \in 1..Len(sent[h]) : sent[h][i].sagaVersion = L

C3_Witness ==
    /\ ContinuingPath(1)
    /\ event[1].id = "E5"
    /\ Len(storeReply[1].events) = 2
    /\ saga[1].version = 3
    /\ Len(sent[1]) = 2

\* C4: a command enqueued by the handler of the applied event carries the
\* saga's id and the version the saga had before the event; after apply the
\* version is one more.
C4_PreIncrementStamp ==
    \A h \in Calls :
        saga[h].error = "" =>
            /\ saga[h].version = restored[h].version + 1
            /\ \A i \in 1..Len(saga[h].messages) :
                  /\ saga[h].messages[i].sagaId = saga[h].id
                  /\ saga[h].messages[i].sagaVersion = restored[h].version

C4_Witness ==
    /\ saga[1].error = ""
    /\ restored[1].version = 1
    /\ Len(saga[1].messages) = 2

\* C5: a saga constructed from N historical events has version N and an
\* empty pending list, also when replayed handlers enqueue commands.
C5_ReplaySilence ==
    \A h \in Calls :
        restored[h].error = "" =>
            /\ restored[h].version =
                  (IF event[h].sagaId # Undefined THEN Len(storeReply[h].events) ELSE 0)
            /\ restored[h].messages = <<>>

C5_Witness ==
    /\ restored[1].error = ""
    /\ restored[1].version = 2
    /\ \E i \in 1..2 : storeReply[1].events[i].type = "Step"

\* the commands the handler of the live event of call h enqueues
LiveCommands(h) ==
    LET cmds == SagaHandlers[event[h].type]
    IN [i \in 1..Len(cmds) |->
          [sagaId |-> saga[h].id, sagaVersion |-> restored[h].version,
           type |-> cmds[i].type, payload |-> cmds[i].payload,
           context |-> event[h].context]]

\* C6 as stated: the commands passed to sendRaw are those of the live event,
\* each once, and every call clears the pending list exactly once, in the
\* construction of the saga.
C6_ClearedOnceInEveryCall ==
    \A h \in Calls :
        saga[h].error = "" =>
            /\ sent[h] = LiveCommands(h)
            /\ restored[h].resets = 1
            /\ saga[h].resets = restored[h].resets

\* C6 as amended: the commands passed to sendRaw are those of the live event,
\* each once; a call that continues a saga clears the pending list exactly
\* once, after the replay and before the live event; a call that starts a
\* saga never clears it.
C6_OnlyLiveCommands ==
    \A h \in Calls :
        saga[h].error = "" =>
            /\ sent[h] = LiveCommands(h)
            /\ restored[h].resets = (IF event[h].sagaId # Undefined THEN 1 ELSE 0)
            /\ saga[h].resets = restored[h].resets

C6_Witness ==
    /\ ContinuingPath(1)
    /\ event[1].type = "Create"
    /\ Len(storeReply[1].events) = 2
    /\ storeReply[1].events[1].type = "Step"
    /\ Len(sent[1]) = 1
    /\ saga[1].resets = 1

\* C7: every command handed to sendRaw has, when handed over, the context
\* of the event of the call, absent when the event has none.
C7_ContextPropagation ==
    \A h \in Calls :
        \A i \in 1..Len(sent[h]) : sent[h][i].context = event[h].context

C7_Witness ==
    /\ Len(sent[1]) = 2
    /\ event[1].context = "ctx"

\* C8: when every dispatch succeeds handle resolves with one result per
\* enqueued command, the i-th being the result of the i-th command's
\* sendRaw, whatever the order in which the dispatches completed.
C8_ResultsInEnqueueOrder ==
    \A h \in Calls :
        outcome[h].status = "resolved" =>
            /\ Len(outcome[h].value) = Len(saga[h].messages)
            /\ \A i \in 1..Len(outcome[h].value) :
                  \E k \in 1..Len(settled[h]) :
                      /\ settled[h][k].index = i
                      /\ settled[h][k].ok
                      /\ settled[h][k].value = outcome[h].value[i]

C8_Witness ==
    /\ outcome[1].status = "resolved"
    /\ Len(outcome[1].value) = 2
    /\ settled[1][1].index = 2
    /\ settled[1][1].value # settled[1][2].value

\* C9: the saga is constructed only after the event store operation has
\* returned, and sendRaw is issued only after the operation has returned,
\* the saga is constructed and the live event is applied.
C9_ThreePhases ==
    [][\A h \in Calls :
          /\ restored'[h] # restored[h] => storeReply[h].status = "resolved"
          /\ sent'[h] # sent[h] =>
                /\ storeReply[h].status = "resolved"
                /\ restored'[h].error = ""
                /\ saga'[h].error = ""
                /\ saga'[h].version = restored'[h].version + 1]_vars

C9_Witness ==
    /\ pc[1] = "awaitDispatch"
    /\ storeReply[1].status = "resolved"
    /\ restored[1].version = 1
    /\ saga[1].version = 2
    /\ sent[1] # <<>>

\* C10: sendRaw has been issued for all the commands of the event once the
\* call waits for the dispatches; when one dispatch fails the others stay
\* issued, pending or settled.
C10_ConcurrentDispatch ==
    \A h \in Calls :
        saga[h].error = "" =>
            /\ Len(sent[h]) = Len(saga[h].messages)
            /\ \A i \in 1..Len(saga[h].messages) :
                  (i \in inflight[h]) # (\E k \in 1..Len(settled[h]) : settled[h][k].index = i)

C10_Witness ==
    /\ pc[1] = "failed"
    /\ Len(sent[1]) = 2
    /\ settled[1] = <<[index |-> 1, ok |-> FALSE, value |-> "send error"]>>
    /\ inflight[1] = {2}

\* C11 as stated: a call of handle has neither resolved nor failed while a
\* sendRaw it issued is still in flight.
C11_CompletesAfterEveryDispatch ==
    \A h \in Calls : pc[h] \in {"done", "failed"} => inflight[h] = {}

\* C11 as amended: a call of handle does not resolve while a sendRaw it
\* issued is in flight; it fails when the first sendRaw rejects, and only
\* then can it have completed with dispatches in flight.
C11_ResolvesAfterEveryDispatch ==
    \A h \in Calls :
        /\ outcome[h].status = "resolved" =>
              /\ inflight[h] = {}
              /\ Len(settled[h]) = Len(sent[h])
        /\ (pc[h] \in {"done", "failed"} /\ inflight[h] # {}) =>
              /\ outcome[h].status = "rejected"
              /\ \E k \in 1..Len(settled[h]) : ~settled[h][k].ok

C11_Witness ==
    /\ outcome[1].status = "resolved"
    /\ Len(sent[1]) = 2
    /\ Len(settled[1]) = 2

\* C13: what handle does to the commands the accessor returned (setting
\* context) leaves the saga's pending list as enqueue built it.
C13_AccessorIndependent ==
    \A h \in Calls :
        saga[h].error = "" =>
            saga[h].messages = UncommittedMessages(Apply(restored[h], event[h]))

\* C14: a call that resolved met no failure (store, construction, apply,
\* sendRaw); a call invokes at most one store operation and sendRaw at most
\* once per command; after a failure before dispatch no sendRaw is invoked.
C14_FailuresSurface ==
    \A h \in Calls :
        /\ Len(storeCalls[h]) <= 1
        /\ Len(sent[h]) = (IF saga[h].error = "" THEN Len(saga[h].messages) ELSE 0)
        /\ \A j, k \in 1..Len(settled[h]) :
              settled[h][j].index = settled[h][k].index => j = k
        /\ (storeReply[h].status = "rejected" \/ saga[h].error # "") => sent[h] = <<>>
        /\ (pc[h] = "failed") = (outcome[h].status = "rejected")
        /\ outcome[h].status = "resolved" =>
              /\ storeReply[h].status = "resolved"
              /\ restored[h].error = ""
              /\ saga[h].error = ""
              /\ \A k \in 1..Len(settled[h]) : settled[h][k].ok
        /\ (storeReply[h].status = "rejected" \/ \E k \in 1..Len(settled[h]) : ~settled[h][k].ok)
              => pc[h] # "done"

C14_Witness ==
    /\ pc[1] = "failed"
    /\ storeReply[1].status = "rejected"
    /\ storeCalls[1] # <<>>
    /\ sent[1] = <<>>

\* apply rejects this event: absent, without type, without handler, or with a
\* handler that throws
ApplyRejects(e) ==
    \/ ~e.defined
    \/ e.type = Undefined
    \/ e.type \notin {"Create", "Step", "Quiet"}

\* C17: when apply fails on a replayed event no saga is built and the live
\* event is not applied; when it fails on the live event the version stays
\* as restored; in both cases the call fails and dispatches nothing.
C17_FailedApply ==
    \A h \in Calls :
        (pc[h] \in {"awaitDispatch", "done", "failed"} /\ storeReply[h].status = "resolved") =>
            LET hist == storeReply[h].events
            IN IF \E i \in 1..Len(hist) : ApplyRejects(hist[i])
               THEN /\ pc[h] = "failed"
                    /\ restored[h] = NoSaga
                    /\ saga[h] = NoSaga
                    /\ sent[h] = <<>>
               ELSE IF ApplyRejects(event[h])
               THEN /\ pc[h] = "failed"
                    /\ restored[h].version = Len(hist)
                    /\ saga[h].error # ""
                    /\ saga[h].version = restored[h].version
                    /\ sent[h] = <<>>
               ELSE saga[h].error = "" /\ saga[h].version = Len(hist) + 1

C17_Witness ==
    /\ pc[1] = "failed"
    /\ event[1].type = "Boom"
    /\ restored[1].version = 1
    /\ saga[1].version = 1
    /\ Len(saga[1].messages) = 1
    /\ sent[1] = <<>>

\* C12: the construction of a SagaEventHandler fails when options,
\* sagaType, eventStore or commandBus is missing, and when neither
\* options.handles nor the saga type, class or function, gives the handled
\* event types.
C12_ConstructionFailsFast ==
    (options.defined \/ reactor.error # "") =>
        ((\/ ~options.defined
          \/ options.sagaType.shape = "undefined"
          \/ ~options.eventStore
          \/ ~options.commandBus
          \/ ~options.handles.defined /\ options.sagaType.handles # "declared")
         => (~reactor.constructed /\ reactor.error # ""))

\* C15: a call that has its history resumes whatever the other calls do, so
\* two calls for one saga id replay the same history side by side and
\* dispatch commands with the same sagaId and sagaVersion.
C15_NoSerialization ==
    \A h \in Calls :
        (pc[h] = "awaitEvents" /\ storeReply[h].status = "resolved") =>
            ENABLED ResumeWithEvents(h)

C15_Witness ==
    /\ pc[1] = "awaitDispatch"
    /\ pc[2] = "awaitDispatch"
    /\ event[1].sagaId = "S1"
    /\ event[2].sagaId = "S1"
    /\ event[1].id # event[2].id
    /\ storeReply[1].events = storeReply[2].events
    /\ \E i \in 1..Len(sent[1]) : \E j \in 1..Len(sent[2]) :
          /\ sent[1][i].sagaId = sent[2][j].sagaId
          /\ sent[1][i].sagaVersion = sent[2][j].sagaVersion

\* the id of the saga of call h: of its event, or as getNewId returned it
OwnId(h) ==
    IF event[h].sagaId # Undefined THEN event[h].sagaId ELSE storeReply[h].id

\* C18: under every interleaving the saga of a call has the id and the
\* version its own event and store reply give, and the call dispatches the
\* commands of its own event stamped with them.
C18_CallsIsolated ==
    \A h \in Calls :
        saga[h].error = "" =>
            LET cmds == SagaHandlers[event[h].type]
                L == Len(storeReply[h].events)
            IN /\ saga[h].id = OwnId(h)
               /\ saga[h].version = L + 1
               /\ sent[h] =
                    [i \in 1..Len(cmds) |->
                        [sagaId |-> OwnId(h), sagaVersion |-> L,
                         type |-> cmds[i].type, payload |-> cmds[i].payload,
                         context |-> event[h].context]]

C18_Witness ==
    /\ pc[1] = "awaitDispatch"
    /\ pc[2] = "done"
    /\ event[1].sagaId = "S1"
    /\ event[2].sagaId = "S1"
    /\ Len(storeReply[1].events) = 0
    /\ Len(storeReply[2].events) = 1
    /\ Len(sent[1]) = 2
    /\ Len(sent[2]) = 1

\* C16: the version of a saga is 0 when it is constructed without events
\* and always the number of apply calls that returned, replayed or live; a
\* step adds at most 1 to it, and exactly 1 when an apply returns, with or
\* without enqueue; it never decreases and the id stays as constructed.
C16_GaplessVersion ==
    /\ [](obj.error = "" => (obj.version = applies /\ obj.id = born))
    /\ [][obj.error = "" =>
            /\ obj'.id = obj.id
            /\ obj'.version = obj.version + (applies' - applies)
            /\ applies' - applies \in {0, 1}]_vars

C16_Witness ==
    /\ obj.error = ""
    /\ obj.version = 3
    /\ applies = 3
    /\ obj.resets = 2
    /\ Len(obj.messages) = 1

\* the instantiations the getter of a name has made
MadeBy(w, name) == {k \in 1..Len(w.log) : w.log[k].via = name}

\* C19: a component registered under a name is not instantiated by register;
\* its getter instantiates it at most once, whatever calls are made on the
\* container, and only in a read of the name; as long as the calls are reads,
\* createInstance, register and create*Instances calls (no registerInstance
\* with that name), every read of the name returns the one instance.
C19_LazySingleton ==
    /\ [](\A n \in Components :
             /\ Cardinality(MadeBy(container, n)) <= 1
             /\ n \notin container.given =>
                   /\ Cardinality(container.returned[n]) <= 1
                   /\ MadeBy(container, n) # {} =>
                         container.returned[n] = {container.instances[n]})
    /\ [][(\E comp \in Components : \E exposeAs \in {comp, Undefined} :
                ContainerRegister(comp, exposeAs)) =>
             /\ container'.log = container.log
             /\ container'.instances = container.instances]_vars

C19_Witness ==
    /\ container.given = {"container"}
    /\ container.factories = <<>>
    /\ container.calls = 3
    /\ Len(container.invoked) = 2
    /\ container.returned["store"] = {[comp |-> "store", serial |-> 1]}
    /\ Cardinality(container.returned["handler"]) = 1
    /\ Instantiations(container, "handler") = 2
    /\ Len(container.log) = 3

IsUnexposed(entry) == entry.unexposed
IsExposed(entry) == ~entry.unexposed

\* the factories a create*Instances step has to deal with: those in the list
\* before it and those registered while it runs
Pool ==
    container.factories \o
        SubSeq(container'.registered, Len(container.registered) + 1,
               Len(container'.registered))

\* the factories a step has called
NewlyInvoked ==
    SubSeq(container'.invoked, Len(container.invoked) + 1, Len(container'.invoked))

\* C20: createUnexposedInstances calls the unexposed factories, once each in
\* the order of registration, also those registered meanwhile, and leaves the
\* exposed ones in the list in their order; createAllInstances calls all the
\* factories in list order and leaves the list empty; the same call made
\* again on the container it leaves instantiates nothing.
C20_CreateInstances ==
    [][/\ ContainerCreateUnexposedInstances =>
             /\ NewlyInvoked = SelectSeq(Pool, IsUnexposed)
             /\ container'.factories = SelectSeq(Pool, IsExposed)
             /\ UnexposedLoop(container', 0).log = container'.log
       /\ ContainerCreateAllInstances =>
             /\ NewlyInvoked = Pool
             /\ container'.factories = <<>>
             /\ AllLoop(container').log = container'.log]_vars

C20_Witness ==
    /\ Len(container.registered) = 3
    /\ ~container.registered[1].unexposed
    /\ container.registered[2].comp = "plugin"
    /\ Len(container.factories) = 1
    /\ ~container.factories[1].unexposed
    /\ Len(container.invoked) = 2
    /\ container.invoked[1].comp = "plugin"
    /\ container.invoked[2].comp = "handler"

====
